---- MODULE Spec2Model ----
(***************************************************************************)
(* Observability instrumentation of saleor/webhook/observability:          *)
(*   - JsonTruncText.truncate, the JSON-escape aware truncation            *)
(*     (payloads.py), checked under SpecTrunc;                             *)
(*   - the re-entrant report_api_call / report_gql_operation scopes,       *)
(*     ApiCall.report, report_event_delivery_attempt and the two-tier      *)
(*     webhook gate cache (utils.py), checked under Spec and SpecGate.     *)
(* Characters are Unicode code points, strings are sequences of them.      *)
(***************************************************************************)
EXTENDS Integers, Sequences, FiniteSets, TLC

(***************************************************************************)
(* Bounds of the truncation model.                                         *)
(***************************************************************************)
\* longest input text
MaxLen == 4
\* largest byte limit passed to truncate
MaxLimit == 14
\* limits range from -NegLimits
NegLimits == 2

\* GraphQL operations of one API call
MaxGqlOperations == 2
\* escaped characters (line feeds) at the head of a pretty-printed text
MaxEscaped == 8
\* plain characters at the end of a pretty-printed text
MaxPlain == 9
\* most bytes a bytes_limit leaves over the fixed portion and the placeholders
MaxBudget == 19
\* len(initial_dump): the serialized fixed portion of the payloads generated
InitialDumpSize == 256

\* 'a', '\n', 'o-acute' (U+00F3), U+10001: plain, short escape, \uXXXX, surrogate pair
Chars == {97, 10, 243, 65537}

Max(a, b) == IF a >= b THEN a ELSE b

Min(a, b) == IF a <= b THEN a ELSE b

(***************************************************************************)
(* json.encoder: ESCAPE_ASCII, ESCAPE_DCT and the ensure_ascii encoding.   *)
(***************************************************************************)
HexDigit(d) == IF d < 10 THEN 48 + d ELSE 87 + d

\* '\\u{0:04x}'.format(n): backslash, 'u', four lower-case hex digits
UEscape(n) ==
    << 92, 117, HexDigit((n \div 4096) % 16), HexDigit((n \div 256) % 16),
       HexDigit((n \div 16) % 16), HexDigit(n % 16) >>

\* the keys of ESCAPE_DCT: backslash, quote, and every code point below 0x20
InESCAPE_DCT(c) == c \in {92, 34} \/ c < 32

\* ESCAPE_DCT[c], for a key c
ESCAPE_DCT(c) ==
    CASE c = 92 -> << 92, 92 >>
      [] c = 34 -> << 92, 34 >>
      [] c = 8  -> << 92, 98 >>
      [] c = 12 -> << 92, 102 >>
      [] c = 10 -> << 92, 110 >>
      [] c = 13 -> << 92, 114 >>
      [] c = 9  -> << 92, 116 >>
      [] OTHER  -> UEscape(c)

\* ESCAPE_ASCII = ([\\"]|[^\ -~]) matches the one-character string c
ESCAPE_ASCII(c) == c \in {92, 34} \/ ~(c >= 32 /\ c <= 126)

\* what json.dumps(..., ensure_ascii=True) writes for one character
JsonEncodeChar(c) ==
    IF ~ESCAPE_ASCII(c) THEN << c >>
    ELSE IF InESCAPE_DCT(c) THEN ESCAPE_DCT(c)
    ELSE IF c < 65536 THEN UEscape(c)
    ELSE UEscape(55296 + (((c - 65536) \div 1024) % 1024))
             \o UEscape(56320 + ((c - 65536) % 1024))

RECURSIVE JsonEncodeBody(_)
JsonEncodeBody(s) ==
    IF s = << >> THEN << >>
    ELSE JsonEncodeChar(Head(s)) \o JsonEncodeBody(Tail(s))

\* _json_serialize of a string: the escaped characters between two quotes
JsonDumps(s) == << 34 >> \o JsonEncodeBody(s) \o << 34 >>

(***************************************************************************)
(* JsonTruncText                                                           *)
(***************************************************************************)
\* JsonTruncText.__init__
JsonTruncText(text, truncated, added_bytes) ==
    [text |-> text, truncated |-> truncated, _added_bytes |-> Max(0, added_bytes)]

\* JsonTruncText.byte_size
byte_size(t) == Len(t.text) + t._added_bytes

\* JsonTruncText.json_char_len
json_char_len(c) ==
    IF InESCAPE_DCT(c) THEN Len(ESCAPE_DCT(c))
    ELSE IF c < 65536 THEN 6 ELSE 12

\* Python's s[:n]
PyPrefix(s, n) ==
    IF n >= 0 THEN SubSeq(s, 1, Min(n, Len(s)))
    ELSE SubSeq(s, 1, Max(Len(s) + n, 0))

CutBeforeKeepMarkup(s, start, added_bytes, markup) ==
    JsonTruncText(PyPrefix(s, start), TRUE, added_bytes)

\* the return taken when end + added_bytes > limit
CutBefore(s, start, added_bytes, markup) ==
    JsonTruncText(PyPrefix(s, start), TRUE, added_bytes - markup)

CutAfterDropsEscape(s, end, s_init_len, added_bytes) ==
    JsonTruncText(PyPrefix(s, end - 1), TRUE, added_bytes - (json_char_len(s[end]) - 1))

\* the return taken when end + added_bytes == limit
CutAfter(s, end, s_init_len, added_bytes) ==
    LET s2 == PyPrefix(s, end)
    IN  JsonTruncText(s2, Len(s2) < s_init_len, added_bytes)

ReturnWholeLeq(s, s_init_len, added_bytes) ==
    JsonTruncText(s, Len(s) <= s_init_len, added_bytes)

ReturnWholeNeverTruncated(s, s_init_len, added_bytes) ==
    JsonTruncText(s, FALSE, added_bytes)

\* the return taken when the loop over the matches ends
ReturnWhole(s, s_init_len, added_bytes) ==
    JsonTruncText(s, Len(s) < s_init_len, added_bytes)

\* the loop over ESCAPE_ASCII.finditer(s), from 1-based index i on
RECURSIVE TruncLoop(_, _, _, _, _)
TruncLoop(s, s_init_len, limit, i, added_bytes) ==
    IF i > Len(s) THEN ReturnWhole(s, s_init_len, added_bytes)
    ELSE IF ~ESCAPE_ASCII(s[i])
    THEN TruncLoop(s, s_init_len, limit, i + 1, added_bytes)
    ELSE LET start  == i - 1
             end    == i
             markup == json_char_len(s[i]) - 1
             added  == added_bytes + markup
         IN  IF end + added > limit THEN CutBefore(s, start, added, markup)
             ELSE IF end + added = limit THEN CutAfter(s, end, s_init_len, added)
             ELSE TruncLoop(s, s_init_len, limit, i + 1, added)

truncateNoClamp(s, limit) ==
    TruncLoop(PyPrefix(s, limit), Len(s), limit, 1, 0)

\* JsonTruncText.truncate
truncate(s, limit) ==
    LET lim == Max(limit, 0)
    IN  TruncLoop(PyPrefix(s, lim), Len(s), lim, 1, 0)


\* reference of the truncation contract: the longest prefix of s whose
\* JSON-escaped size is at most max(limit, 0)
LongestFittingPrefix(s, limit) ==
    LET fits == {k \in 0..Len(s) : Len(JsonEncodeBody(SubSeq(s, 1, k))) <= Max(limit, 0)}
    IN  SubSeq(s, 1, CHOOSE k \in fits : \A j \in fits : j <= k)

(***************************************************************************)
(* Bounds of the instrumentation model.                                    *)
(***************************************************************************)
\* open scopes (with blocks) per execution flow
MaxDepth == 2
\* ApiCall objects created per execution flow
MaxCalls == 1
\* GraphQLOperationResponse objects created
MaxOps == 1
\* explicit report() calls per ApiCall
MaxReports == 2
\* report_event_delivery_attempt calls
MaxAttempts == 1
\* last instant of the clock
MaxTime == 3

\* CACHE_TIMEOUT = parse("2 minutes"); the clock counts minutes
CACHE_TIMEOUT == 2

\* execution flows (threads, async tasks) of asgiref's Local
Flows == {1, 2}

\* the webhooks that may subscribe to the observability event
Webhooks == {1}

\* the value of an absent attribute, a cache miss, a missing dict entry
None == [none |-> TRUE]

VARIABLES
    \* truncation: the input, the result, the result of truncating it again
    text, limit, res, res2, tpc,
    \* one call of a payload generator: its arguments and what it returned
    gen,
    \* _context: per flow, the attributes api_call and gql_operation (0: absent)
    context,
    \* per flow, the stack of open report_api_call / report_gql_operation
    \* generators, each suspended at its yield with its local `root`
    frames,
    \* the ApiCall objects, by identity 1..Len(api_calls)
    api_calls,
    \* number of GraphQLOperationResponse objects created
    n_ops,
    \* how the last scope left: "return" or "raise" ("none" before any)
    last_exit,
    \* per ApiCall, report() calls made by an owning scope exit (observer)
    scope_reports,
    \* per ApiCall, observer of report(): calls, put_to_buffer calls, and
    \* whether every call so far was made under reportable conditions
    obs,
    \* django settings OBSERVABILITY_ACTIVE, OBSERVABILITY_REPORT_ALL_API_CALLS
    settings,
    \* _active_webhooks_exists_cache[get_buffer_name()]
    _active_webhooks_exists_cache,
    \* the shared django cache entry WEBHOOKS_KEY
    cache,
    \* the webhooks get_webhooks_for_event(OBSERVABILITY) finds
    registry,
    \* monotonic() and the cache's clock
    now,
    \* the events put to the buffer, and the payload generators invoked
    buffer, built,
    \* report_event_delivery_attempt calls made
    n_attempts,
    \* the last reporting call (ApiCall.report, the exit of an outermost
    \* report_api_call scope, report_event_delivery_attempt) ended with an
    \* exception thrown into its caller
    raised

\* the calls of the pure functions
truncVars == << text, limit, res, res2, tpc, gen >>

scopeVars == << context, frames, n_ops, last_exit, scope_reports >>

callVars == << api_calls, obs >>

gateVars == << _active_webhooks_exists_cache, cache >>

envVars == << settings, registry, now >>

bufferVars == << buffer, built >>

vars == << truncVars, scopeVars, callVars, gateVars, envVars, bufferVars, n_attempts, raised >>

(***************************************************************************)
(* Truncation: one call on an arbitrary input, then a call on its result.  *)
(***************************************************************************)
RECURSIVE Texts(_)
Texts(n) ==
    IF n = 0 THEN {<< >>}
    ELSE LET shorter == Texts(n - 1)
         IN  shorter \cup {Append(t, c) : t \in {u \in shorter : Len(u) = n - 1}, c \in Chars}

TruncIdle ==
    /\ text = << >>
    /\ limit = 0
    /\ res = JsonTruncText(<< >>, FALSE, 0)
    /\ res2 = JsonTruncText(<< >>, FALSE, 0)
    /\ tpc = "input"
    /\ gen = [pc |-> "idle"]

Truncate ==
    /\ tpc = "input"
    /\ res' = truncate(text, limit)
    /\ tpc' = "truncated"
    /\ UNCHANGED << text, limit, res2, gen >>

TruncateAgain ==
    /\ tpc = "truncated"
    /\ res2' = truncate(res.text, limit)
    /\ tpc' = "again"
    /\ UNCHANGED << text, limit, res, gen >>


(***************************************************************************)
(* The webhook gate: get_observability_webhooks over the shared cache,     *)
(* active_webhooks_exists over the process-local cache.                    *)
(***************************************************************************)
\* cache.get(WEBHOOKS_KEY) is not None: an entry is stored and has not expired
cache_hit == cache # None /\ now < cache.expires

\* the list get_observability_webhooks() returns in this state
get_observability_webhooks == IF cache_hit THEN cache.value ELSE registry

cache_after_get_empty_is_miss ==
    IF cache_hit /\ cache.value # {} THEN cache
    ELSE [value |-> registry, expires |-> now + CACHE_TIMEOUT,
          queries |-> IF cache_hit THEN cache.queries + 1 ELSE 1]

\* the shared cache after get_observability_webhooks(): set on a miss only,
\* to the list get_webhooks_for_event finds; queries counts the queries of
\* the webhooks made for the entry and while it is live
cache_after_get ==
    IF cache_hit THEN cache
    ELSE [value |-> registry, expires |-> now + CACHE_TIMEOUT, queries |-> 1]

gate_fresh_below_timeout ==
    /\ _active_webhooks_exists_cache # None
    /\ now - _active_webhooks_exists_cache.check_time < CACHE_TIMEOUT

\* the local entry is present and monotonic() - check_time <= timeout
gate_fresh ==
    /\ _active_webhooks_exists_cache # None
    /\ now - _active_webhooks_exists_cache.check_time <= CACHE_TIMEOUT

active_webhooks_exists_inverted ==
    IF gate_fresh THEN _active_webhooks_exists_cache.is_active
    ELSE get_observability_webhooks = {}

\* the value active_webhooks_exists() returns in this state
active_webhooks_exists ==
    IF gate_fresh THEN _active_webhooks_exists_cache.is_active
    ELSE get_observability_webhooks # {}

\* the caches after active_webhooks_exists()
active_webhooks_exists_effect ==
    IF gate_fresh THEN UNCHANGED gateVars
    ELSE /\ _active_webhooks_exists_cache' =
                [is_active |-> active_webhooks_exists, check_time |-> now]
         /\ cache' = cache_after_get

\* active_webhooks_exists() does not return: cache.get, the query of the
\* webhooks or cache.set raises, which only the path that recomputes the
\* answer can do, and which happens before the local entry is stored
active_webhooks_exists_raises ==
    /\ ~gate_fresh
    /\ UNCHANGED gateVars

active_webhooks_exists_clear_both_caches ==
    /\ _active_webhooks_exists_cache' = None
    /\ cache' = None
    /\ UNCHANGED << truncVars, scopeVars, callVars, envVars, bufferVars, n_attempts, raised >>

\* active_webhooks_exists_clear_cache()
active_webhooks_exists_clear_cache ==
    /\ _active_webhooks_exists_cache' = None
    /\ UNCHANGED << truncVars, scopeVars, callVars, cache, envVars, bufferVars, n_attempts, raised >>

(***************************************************************************)
(* The payload generators. A document is modelled by its length, the       *)
(* number of characters _json_serialize writes for it.                     *)
(***************************************************************************)
\* len(json.dumps(b)) of a bool: true, false
BoolSize(b) == IF b THEN 4 ELSE 5

\* CustomJsonEncoder.default on a JsonTruncText, serialized:
\* {"text": <string>, "truncated": <bool>}
JsonTruncTextSize(t) == 9 + Len(JsonDumps(t.text)) + 15 + BoolSize(t.truncated) + 1

\* an Optional[JsonTruncText] serialized: null for None
OptionalTruncTextSize(t) == IF t = None THEN 4 ELSE JsonTruncTextSize(t)

\* the operation of an operation definition, serialized with its quotes
OperationTypeSize(o) ==
    CASE o = "query"        -> 7
      [] o = "mutation"     -> 10
      [] o = "subscription" -> 14
      [] OTHER              -> 4

\* TRUNC_PLACEHOLDER = JsonTruncText(truncated=False)
TRUNC_PLACEHOLDER == JsonTruncText(<< >>, FALSE, 0)

\* a GraphQLOperationPayload serialized, with the keys of the TypedDict
\* (operation_type, result_invalid) or with the keys to_camel_case makes
\* of them (operationType, resultInvalid)
GraphQLOperationPayloadSize(p, camel_case) ==
    LET key == IF camel_case THEN 19 ELSE 20
    IN  9 + OptionalTruncTextSize(p.name)
          + key + OperationTypeSize(p.operation_type)
          + 11 + OptionalTruncTextSize(p.query)
          + 12 + OptionalTruncTextSize(p.result)
          + key + BoolSize(p.result_invalid) + 1

GQL_OPERATION_PLACEHOLDER ==
    [name |-> TRUNC_PLACEHOLDER, operation_type |-> "subscription",
     query |-> TRUNC_PLACEHOLDER, result |-> TRUNC_PLACEHOLDER, result_invalid |-> FALSE]

\* len(_json_serialize(GQL_OPERATION_PLACEHOLDER)), 188
GQL_OPERATION_PLACEHOLDER_SIZE == GraphQLOperationPayloadSize(GQL_OPERATION_PLACEHOLDER, FALSE)

\* the JsonTruncText of a field of an operation: None when the field is
\* absent (empty)
TruncOptional(s, bytes_limit) == IF s # << >> THEN truncate(s, bytes_limit) ELSE None

\* what a field takes off bytes_limit: its byte_size, nothing when absent
SpentBytes(t) == IF t = None THEN 0 ELSE byte_size(t)

\* serialize_gql_operation_result, its return: the payload of the three
\* fields and max(0, bytes_limit) after the result
SerializedOperation(operation, name, query, result, bytes_limit) ==
    [error   |-> FALSE,
     payload |-> [name |-> name,
                  operation_type |-> IF query = None THEN "None" ELSE operation.operation,
                  query |-> query,
                  result |-> result,
                  result_invalid |-> operation.result_invalid],
     left_bytes |-> Max(0, bytes_limit - SpentBytes(result))]

\* serialize_gql_operation_result, from if operation.result on: the result
\* gets all of bytes_limit
SerializeResult(operation, name, query, bytes_limit) ==
    SerializedOperation(operation, name, query,
                        TruncOptional(operation.result, bytes_limit), bytes_limit)

\* serialize_gql_operation_result, from if operation.query on: the query
\* gets half of bytes_limit
SerializeQuery(operation, name, bytes_limit) ==
    SerializeResult(operation, name,
                    TruncOptional(operation.query, bytes_limit \div 2),
                    bytes_limit
                      - SpentBytes(TruncOptional(operation.query, bytes_limit \div 2)))

\* serialize_gql_operation_result, from if operation.name on: the name gets
\* a third of bytes_limit
SerializeName(operation, bytes_limit) ==
    SerializeQuery(operation,
                   TruncOptional(operation.name, bytes_limit \div 3),
                   bytes_limit - SpentBytes(TruncOptional(operation.name, bytes_limit \div 3)))

serialize_gql_operation_result_no_room_at_zero(operation, bytes_limit) ==
    IF bytes_limit - GQL_OPERATION_PLACEHOLDER_SIZE <= 0 THEN [error |-> TRUE]
    ELSE SerializeName(operation, bytes_limit - GQL_OPERATION_PLACEHOLDER_SIZE)

\* serialize_gql_operation_result: the payload and the bytes left, or
\* ValueError. An operation has a name, the document_string of its query
\* and its pretty-printed result, each empty when absent, and operation is
\* what get_operation_ast finds in the query.
serialize_gql_operation_result(operation, bytes_limit) ==
    IF bytes_limit - GQL_OPERATION_PLACEHOLDER_SIZE < 0 THEN [error |-> TRUE]
    ELSE SerializeName(operation, bytes_limit - GQL_OPERATION_PLACEHOLDER_SIZE)

\* one iteration of the loop as it ran (a ghost): bytes_limit before it, the
\* payload_limit it passed on and the left_bytes it got back
Slice(bytes_limit, payload_limit, left_bytes) ==
    [bytes_limit |-> bytes_limit, payload_limit |-> payload_limit, left_bytes |-> left_bytes]

RECURSIVE SerializeLoop(_, _, _, _, _)
SerializeStepNoCarry(operations, bytes_limit, i, payloads, slices, payload_limit, r) ==
    IF r.error THEN [error |-> TRUE, slices |-> slices]
    ELSE SerializeLoop(operations, bytes_limit - payload_limit,
                       i + 1, Append(payloads, r.payload),
                       Append(slices, Slice(bytes_limit, payload_limit, r.left_bytes)))

\* the body of the loop for the operation i, given its payload_limit and
\* what serialize_gql_operation_result returned for it
SerializeStep(operations, bytes_limit, i, payloads, slices, payload_limit, r) ==
    IF r.error THEN [error |-> TRUE, slices |-> slices]
    ELSE SerializeLoop(operations, bytes_limit - (payload_limit - r.left_bytes),
                       i + 1, Append(payloads, r.payload),
                       Append(slices, Slice(bytes_limit, payload_limit, r.left_bytes)))

\* the loop of serialize_gql_operation_results from the operation i on
\* (1-based), with the payloads made so far and the iterations that made
\* them
SerializeLoop(operations, bytes_limit, i, payloads, slices) ==
    IF i > Len(operations)
    THEN [error |-> FALSE, payloads |-> payloads, slices |-> slices]
    ELSE SerializeStep(operations, bytes_limit, i, payloads, slices,
                       bytes_limit \div (Len(operations) - (i - 1)),
                       serialize_gql_operation_result(
                           operations[i], bytes_limit \div (Len(operations) - (i - 1))))

\* serialize_gql_operation_results: the payloads, or ValueError
serialize_gql_operation_results(operations, bytes_limit) ==
    IF bytes_limit - Len(operations) * GQL_OPERATION_PLACEHOLDER_SIZE < 0
    THEN [error |-> TRUE, slices |-> << >>]
    ELSE SerializeLoop(operations, bytes_limit, 1, << >>, << >>)

RECURSIVE PayloadsSize(_)
\* the operations list serialized, brackets aside: the payloads with camel
\* case keys, joined by ", "
PayloadsSize(payloads) ==
    IF payloads = << >> THEN 0
    ELSE GraphQLOperationPayloadSize(Head(payloads), TRUE)
         + (IF Len(payloads) > 1 THEN 2 ELSE 0)
         + PayloadsSize(Tail(payloads))

PayloadTooBigAtZero(remaining_bytes) == remaining_bytes <= 0

\* if remaining_bytes < 0: raise ValueError("Payload too big ...")
PayloadTooBig(remaining_bytes) == remaining_bytes < 0

OperationsNeverEmpty(gql_operations, r) ==
    IF r.error
    THEN [i \in DOMAIN gql_operations |->
             [name |-> None, operation_type |-> "None", query |-> None,
              result |-> None, result_invalid |-> gql_operations[i].result_invalid]]
    ELSE r.payloads

\* the try block around serialize_gql_operation_results, which returned r
\* or raised ValueError: on ValueError the operations list stays empty
OperationsOrEmpty(gql_operations, r) ==
    IF r.error THEN << >> ELSE r.payloads

\* the characters payload_to_camel_case takes off the keys of an
\* ApiCallPayload outside the operations: event_type, content_length
\* (twice), status_code, gql_operations
ApiCallCamelCaseSaving == 5

\* generate_api_call_payload, its return: the payload with its operations
\* serialized by _json_serialize(payload_to_camel_case(payload)), r being
\* what serialize_gql_operation_results returned; budget_error (whether it
\* raised) and slices (the iterations of its loop) are ghosts
ApiCallDocument(initial_dump, gql_operations, r) ==
    [error |-> "none",
     count |-> Len(gql_operations),
     operations |-> OperationsOrEmpty(gql_operations, r),
     size |-> initial_dump - ApiCallCamelCaseSaving
              + PayloadsSize(OperationsOrEmpty(gql_operations, r)),
     budget_error |-> r.error,
     slices |-> r.slices]

\* generate_api_call_payload for a request and response whose payload with
\* an empty operations list serializes to initial_dump characters: the
\* length of the document and its operations, or the ValueError raised
generate_api_call_payload(initial_dump, gql_operations, bytes_limit) ==
    IF PayloadTooBig(bytes_limit - initial_dump) THEN [error |-> "too_big"]
    ELSE ApiCallDocument(
             initial_dump, gql_operations,
             serialize_gql_operation_results(gql_operations, bytes_limit - initial_dump))

\* the characters payload_to_camel_case takes off the keys of an
\* EventDeliveryAttemptPayload: event_type (twice), event_delivery_attempt (2),
\* next_retry, content_length (twice), status_code, event_delivery,
\* event_sync, target_url, subscription_query
AttemptCamelCaseSaving == 12

MissingLinkUncheckedWebhook(attempt) ==
    IF ~attempt.has_delivery THEN "not_assigned"
    ELSE IF ~attempt.has_payload THEN "no_payload_or_webhook"
    ELSE "none"

\* the two checks generate_event_delivery_attempt_payload starts with: the
\* ValueError raised for an attempt without delivery, or for a delivery
\* without payload or webhook
MissingLink(attempt) ==
    IF ~attempt.has_delivery THEN "not_assigned"
    ELSE IF ~attempt.has_payload \/ ~attempt.has_webhook THEN "no_payload_or_webhook"
    ELSE "none"

\* generate_event_delivery_attempt_payload, its return: the data with the
\* three texts in the place of the TRUNC_PLACEHOLDERs, serialized
AttemptDocument(initial_dump, trunc_resp_body, trunc_subscription_query, trunc_payload) ==
    [error |-> "none",
     body |-> trunc_resp_body,
     subscription_query |-> trunc_subscription_query,
     payload |-> trunc_payload,
     size |-> initial_dump - AttemptCamelCaseSaving
              - 3 * JsonTruncTextSize(TRUNC_PLACEHOLDER)
              + JsonTruncTextSize(trunc_resp_body)
              + OptionalTruncTextSize(trunc_subscription_query)
              + JsonTruncTextSize(trunc_payload)]

\* generate_event_delivery_attempt_payload, from the event payload on: it
\* gets all of remaining_bytes
AttemptPayload(initial_dump, attempt, trunc_resp_body, trunc_subscription_query, remaining_bytes) ==
    AttemptDocument(initial_dump, trunc_resp_body, trunc_subscription_query,
                    truncate(attempt.payload, remaining_bytes))

\* generate_event_delivery_attempt_payload, from the subscription query on:
\* it gets half of remaining_bytes
AttemptSubscriptionQuery(initial_dump, attempt, trunc_resp_body, remaining_bytes) ==
    AttemptPayload(initial_dump, attempt, trunc_resp_body,
                   TruncOptional(attempt.subscription_query, remaining_bytes \div 2),
                   remaining_bytes
                     - SpentBytes(TruncOptional(attempt.subscription_query,
                                                remaining_bytes \div 2)))

\* generate_event_delivery_attempt_payload, from the response body on: it
\* gets a third of remaining_bytes
AttemptResponseBody(initial_dump, attempt, remaining_bytes) ==
    AttemptSubscriptionQuery(
        initial_dump, attempt,
        truncate(attempt.response, remaining_bytes \div 3),
        remaining_bytes - byte_size(truncate(attempt.response, remaining_bytes \div 3)))

\* generate_event_delivery_attempt_payload for an attempt whose payload with
\* the three TRUNC_PLACEHOLDERs serializes to initial_dump characters: the
\* length of the document and its three texts, or the ValueError raised.
\* An attempt has a delivery or not, the delivery a payload and a webhook
\* or not; response is attempt.response or "", subscription_query the
\* webhook's (empty when None), payload the pretty-printed event payload.
generate_event_delivery_attempt_payload(initial_dump, attempt, bytes_limit) ==
    IF MissingLink(attempt) # "none" THEN [error |-> MissingLink(attempt)]
    ELSE IF PayloadTooBig(bytes_limit - initial_dump) THEN [error |-> "too_big"]
    ELSE AttemptResponseBody(initial_dump, attempt, bytes_limit - initial_dump)

\* get_observability_webhooks() called on its own, as the reporter of the
\* buffered events does
GetObservabilityWebhooks ==
    /\ cache' = cache_after_get
    /\ UNCHANGED << truncVars, scopeVars, callVars, _active_webhooks_exists_cache, envVars,
                    bufferVars, n_attempts, raised >>

(***************************************************************************)
(* put_to_buffer: the generator is invoked, and the payload is put unless  *)
(* the generator or the buffer raised ("ok", "build_error", "put_error").  *)
(***************************************************************************)
Outcomes == {"ok", "build_error", "put_error"}

put_to_buffer(event, outcome) ==
    /\ built' = built + 1
    /\ buffer' = IF outcome = "ok" THEN Append(buffer, event) ELSE buffer

(***************************************************************************)
(* ApiCall                                                                 *)
(***************************************************************************)
\* ApiCall.__init__ for a request with or without request.app
ApiCall(app) ==
    [gql_operations |-> << >>, response |-> FALSE, _reported |-> FALSE, request_app |-> app]

\* flow: the flow whose report_api_call created the ApiCall (0: none)
NoObs == [reports |-> 0, puts |-> 0, all_ok |-> TRUE, noop |-> FALSE, flow |-> 0]

\* the conditions under which report() goes on to the gate, _reported aside
Reportable(a) ==
    /\ settings.OBSERVABILITY_ACTIVE
    /\ settings.OBSERVABILITY_REPORT_ALL_API_CALLS \/ api_calls[a].request_app
    /\ api_calls[a].response

\* observer of one report() call on a; gate: the gate answers (or would
\* answer) that active webhooks exist; noop: some call was made while the
\* ApiCall was unreported and one of the three tests held it back
Observe(a, put, gate) ==
    obs' = [obs EXCEPT ![a] =
                [reports |-> @.reports + 1,
                 puts    |-> @.puts + (IF put THEN 1 ELSE 0),
                 all_ok  |-> @.all_ok /\ Reportable(a) /\ gate,
                 noop    |-> @.noop \/ (~api_calls[a]._reported /\ ~Reportable(a)),
                 flow    |-> @.flow]]

MarkReportedSkipped(calls, a) == calls

\* self._reported = True
MarkReported(calls, a) == [calls EXCEPT ![a]._reported = TRUE]

ReturnMarksReported(a) ==
    /\ Observe(a, FALSE, active_webhooks_exists)
    /\ raised' = FALSE
    /\ api_calls' = MarkReported(api_calls, a)
    /\ UNCHANGED << gateVars, bufferVars >>

\* one of the three return statements report() starts with
Return(a) ==
    /\ Observe(a, FALSE, active_webhooks_exists)
    /\ raised' = FALSE
    /\ UNCHANGED << api_calls, gateVars, bufferVars >>

\* ApiCall.report on the ApiCall a
report(a) ==
    IF api_calls[a]._reported \/ ~settings.OBSERVABILITY_ACTIVE
    THEN Return(a)
    ELSE IF ~settings.OBSERVABILITY_REPORT_ALL_API_CALLS /\ ~api_calls[a].request_app
    THEN Return(a)
    ELSE IF ~api_calls[a].response
    THEN Return(a)
    ELSE /\ api_calls' = MarkReported(api_calls, a)
         /\ \/ /\ active_webhooks_exists_effect
               /\ raised' = FALSE
               /\ IF active_webhooks_exists
                  THEN /\ \E outcome \in Outcomes :
                              put_to_buffer(<< "api_call", a >>, outcome)
                       /\ Observe(a, TRUE, TRUE)
                  ELSE /\ UNCHANGED bufferVars
                       /\ Observe(a, FALSE, FALSE)
            \* the gate check is made outside the try block of put_to_buffer
            \/ /\ active_webhooks_exists_raises
               /\ raised' = TRUE
               /\ UNCHANGED bufferVars
               /\ Observe(a, FALSE, FALSE)

\* api_call.report() called by code that holds the accumulator
Report(a) ==
    /\ a \in DOMAIN api_calls
    /\ obs[a].reports < MaxReports
    /\ report(a)
    /\ UNCHANGED << truncVars, scopeVars, envVars, n_attempts >>

\* api_call.response = response, in report_view or by the holder of an ApiCall
AttachResponse(a) ==
    /\ a \in DOMAIN api_calls
    /\ ~api_calls[a].response
    /\ api_calls' = [api_calls EXCEPT ![a].response = TRUE]
    /\ UNCHANGED << truncVars, scopeVars, obs, gateVars, envVars, bufferVars, n_attempts, raised >>

\* the ApiCall a caller constructs itself, outside the scopes (the api_call
\* fixture of the tests)
NewApiCall(app) ==
    /\ api_calls = << >>
    /\ api_calls' = Append(api_calls, ApiCall(app))
    /\ obs' = Append(obs, NoObs)
    /\ scope_reports' = Append(scope_reports, 0)
    /\ UNCHANGED << truncVars, context, frames, n_ops, last_exit, gateVars, envVars,
                    bufferVars, n_attempts, raised >>

(***************************************************************************)
(* The scopes report_api_call and report_gql_operation. A frame is one     *)
(* generator suspended at its yield: its kind, its local root, and the     *)
(* accumulator it yielded.                                                 *)
(***************************************************************************)
SlotShared(f) == 1

\* _context = Local(): the storage the attributes of _context live in when
\* they are read or written in flow f, one per flow
Slot(f) == f

\* the ApiCalls that report_api_call created in flow f
CreatedIn(f) == {a \in DOMAIN obs : obs[a].flow = f}

Frame(kind, root, acc) == [kind |-> kind, root |-> root, acc |-> acc]

Top(f) == frames[f][Len(frames[f])]

Pop(f) == [frames EXCEPT ![f] = SubSeq(@, 1, Len(@) - 1)]

Push(f, fr) == [frames EXCEPT ![f] = Append(@, fr)]

\* the ApiCalls the code running in flow f holds: those its open scopes yielded
Held(f) == {frames[f][i].acc : i \in {j \in DOMAIN frames[f] : frames[f][j].kind = "api_call"}}

\* with report_api_call(request): up to the yield
EnterApiCall(f, app) ==
    /\ Len(frames[f]) < MaxDepth
    /\ IF context[Slot(f)].api_call = 0
       THEN /\ Cardinality(CreatedIn(f)) < MaxCalls
            /\ api_calls' = Append(api_calls, ApiCall(app))
            /\ obs' = Append(obs, [NoObs EXCEPT !.flow = f])
            /\ scope_reports' = Append(scope_reports, 0)
            /\ context' = [context EXCEPT ![Slot(f)].api_call = Len(api_calls) + 1]
            /\ frames' = Push(f, Frame("api_call", TRUE, Len(api_calls) + 1))
       ELSE /\ frames' = Push(f, Frame("api_call", FALSE, context[Slot(f)].api_call))
            /\ UNCHANGED << api_calls, obs, scope_reports, context >>
    /\ UNCHANGED << truncVars, n_ops, last_exit, gateVars, envVars, bufferVars, n_attempts, raised >>

\* the body of a report_api_call block ends normally: the code after the yield
ExitApiCall(f) ==
    /\ frames[f] # << >>
    /\ Top(f).kind = "api_call"
    /\ IF Top(f).root
       THEN /\ report(context[Slot(f)].api_call)
            /\ scope_reports' = [scope_reports EXCEPT ![context[Slot(f)].api_call] = @ + 1]
            \* del _context.api_call runs only when report() returned
            /\ context' = IF raised' THEN context
                          ELSE [context EXCEPT ![Slot(f)].api_call = 0]
       ELSE /\ raised' = FALSE
            /\ UNCHANGED << context, scope_reports, callVars, gateVars, bufferVars >>
    /\ frames' = Pop(f)
    /\ last_exit' = "return"
    /\ UNCHANGED << truncVars, n_ops, envVars, n_attempts >>

\* the body of a report_api_call block raises: the exception is thrown into
\* the generator at its yield, and nothing after the yield runs
RaiseApiCall(f) ==
    /\ frames[f] # << >>
    /\ Top(f).kind = "api_call"
    /\ frames' = Pop(f)
    /\ last_exit' = "raise"
    /\ UNCHANGED << truncVars, context, n_ops, scope_reports, callVars, gateVars, envVars,
                    bufferVars, n_attempts, raised >>

\* with report_gql_operation(): up to the yield
EnterGqlOperation(f) ==
    /\ Len(frames[f]) < MaxDepth
    /\ IF context[Slot(f)].gql_operation = 0
       THEN /\ n_ops < MaxOps
            /\ n_ops' = n_ops + 1
            /\ context' = [context EXCEPT ![Slot(f)].gql_operation = n_ops + 1]
            /\ frames' = Push(f, Frame("gql_operation", TRUE, n_ops + 1))
       ELSE /\ frames' = Push(f, Frame("gql_operation", FALSE, context[Slot(f)].gql_operation))
            /\ UNCHANGED << n_ops, context >>
    /\ UNCHANGED << truncVars, last_exit, scope_reports, callVars, gateVars, envVars,
                    bufferVars, n_attempts, raised >>

AppendGqlOperationTwice(calls, a, op) ==
    [calls EXCEPT ![a].gql_operations = Append(Append(@, op), op)]

PrependGqlOperation(calls, a, op) ==
    [calls EXCEPT ![a].gql_operations = << op >> \o @]

\* _context.api_call.gql_operations.append(_context.gql_operation)
AppendGqlOperation(calls, a, op) ==
    [calls EXCEPT ![a].gql_operations = Append(@, op)]

\* the body of a report_gql_operation block ends normally
ExitGqlOperation(f) ==
    /\ frames[f] # << >>
    /\ Top(f).kind = "gql_operation"
    /\ IF Top(f).root
       THEN /\ api_calls' =
                  IF context[Slot(f)].api_call # 0
                  THEN AppendGqlOperation(api_calls, context[Slot(f)].api_call,
                                          context[Slot(f)].gql_operation)
                  ELSE api_calls
            /\ context' = [context EXCEPT ![Slot(f)].gql_operation = 0]
       ELSE UNCHANGED << context, api_calls >>
    /\ frames' = Pop(f)
    /\ last_exit' = "return"
    /\ UNCHANGED << truncVars, n_ops, scope_reports, obs, gateVars, envVars, bufferVars,
                    n_attempts, raised >>

\* the body of a report_gql_operation block raises
RaiseGqlOperation(f) ==
    /\ frames[f] # << >>
    /\ Top(f).kind = "gql_operation"
    /\ frames' = Pop(f)
    /\ last_exit' = "raise"
    /\ UNCHANGED << truncVars, context, n_ops, scope_reports, callVars, gateVars, envVars,
                    bufferVars, n_attempts, raised >>

(***************************************************************************)
(* report_event_delivery_attempt, for an attempt with or without delivery  *)
(***************************************************************************)
report_event_delivery_attempt(has_delivery) ==
    /\ n_attempts < MaxAttempts
    /\ n_attempts' = n_attempts + 1
    /\ IF ~settings.OBSERVABILITY_ACTIVE
       THEN /\ raised' = FALSE
            /\ UNCHANGED << gateVars, bufferVars >>
       ELSE \/ /\ active_webhooks_exists_effect
               /\ raised' = FALSE
               /\ IF active_webhooks_exists
                  THEN \E outcome \in Outcomes :
                           \* generate_event_delivery_attempt_payload raises
                           \* ValueError for an attempt without delivery
                           /\ has_delivery \/ outcome = "build_error"
                           /\ put_to_buffer(<< "event_delivery_attempt", n_attempts + 1 >>,
                                            outcome)
                  ELSE UNCHANGED bufferVars
            \* the gate check is made outside the try block of put_to_buffer
            \/ /\ active_webhooks_exists_raises
               /\ raised' = TRUE
               /\ UNCHANGED bufferVars
    /\ UNCHANGED << truncVars, scopeVars, callVars, envVars >>

(***************************************************************************)
(* The environment: time, the webhook registry, the settings.              *)
(***************************************************************************)
Settings ==
    [OBSERVABILITY_ACTIVE : BOOLEAN, OBSERVABILITY_REPORT_ALL_API_CALLS : BOOLEAN]

Tick ==
    /\ now < MaxTime
    /\ now' = now + 1
    /\ UNCHANGED << truncVars, scopeVars, callVars, gateVars, settings, registry,
                    bufferVars, n_attempts, raised >>

\* webhooks subscribe to or unsubscribe from the observability event
RegistryChange(ws) ==
    /\ ws # registry
    /\ registry' = ws
    /\ UNCHANGED << truncVars, scopeVars, callVars, gateVars, settings, now,
                    bufferVars, n_attempts, raised >>

SetSettings(st) ==
    /\ st # settings
    /\ settings' = st
    /\ UNCHANGED << truncVars, scopeVars, callVars, gateVars, registry, now,
                    bufferVars, n_attempts, raised >>

(***************************************************************************)
(* Specifications                                                          *)
(***************************************************************************)
ScopeIdle ==
    /\ context = [f \in Flows |-> [api_call |-> 0, gql_operation |-> 0]]
    /\ frames = [f \in Flows |-> << >>]
    /\ api_calls = << >>
    /\ n_ops = 0
    /\ last_exit = "none"
    /\ scope_reports = << >>
    /\ obs = << >>
    /\ _active_webhooks_exists_cache = None
    /\ cache = None
    /\ now = 0
    /\ buffer = << >>
    /\ built = 0
    /\ n_attempts = 0
    /\ raised = FALSE

\* the flow the scopes of Spec run in
SpecFlows == {1}

\* scopes, reports and responses of one flow, under each setting and registry
Init ==
    /\ TruncIdle
    /\ ScopeIdle
    /\ settings \in Settings
    /\ registry \in SUBSET Webhooks

Next ==
    \/ \E f \in SpecFlows, app \in BOOLEAN : EnterApiCall(f, app)
    \/ \E f \in SpecFlows : ExitApiCall(f)
    \/ \E f \in SpecFlows : RaiseApiCall(f)
    \/ \E f \in SpecFlows : EnterGqlOperation(f)
    \/ \E f \in SpecFlows : ExitGqlOperation(f)
    \/ \E f \in SpecFlows : RaiseGqlOperation(f)
    \/ \E f \in SpecFlows : \E a \in Held(f) : AttachResponse(a)
    \/ \E f \in SpecFlows : \E a \in Held(f) : Report(a)

Spec == Init /\ [][Next]_vars

\* the scopes of the flows of Flows interleaved, with the instrumentation
\* active for every API call and a webhook subscribed; the bodies of the
\* scopes attach no response
InitConcurrent ==
    /\ TruncIdle
    /\ ScopeIdle
    /\ settings = [OBSERVABILITY_ACTIVE |-> TRUE, OBSERVABILITY_REPORT_ALL_API_CALLS |-> TRUE]
    /\ registry = Webhooks

NextConcurrent ==
    \/ \E f \in Flows : EnterApiCall(f, FALSE)
    \/ \E f \in Flows : ExitApiCall(f)
    \/ \E f \in Flows : RaiseApiCall(f)
    \/ \E f \in Flows : EnterGqlOperation(f)
    \/ \E f \in Flows : ExitGqlOperation(f)
    \/ \E f \in Flows : RaiseGqlOperation(f)

SpecConcurrent == InitConcurrent /\ [][NextConcurrent]_vars

\* truncate on every text and limit within the bounds
InitTrunc ==
    /\ text \in Texts(MaxLen)
    /\ limit \in (0 - NegLimits)..MaxLimit
    /\ res = JsonTruncText(<< >>, FALSE, 0)
    /\ res2 = JsonTruncText(<< >>, FALSE, 0)
    /\ tpc = "input"
    /\ gen = [pc |-> "idle"]
    /\ ScopeIdle
    /\ settings = [OBSERVABILITY_ACTIVE |-> FALSE, OBSERVABILITY_REPORT_ALL_API_CALLS |-> FALSE]
    /\ registry = {}

NextTrunc ==
    \/ Truncate /\ UNCHANGED << scopeVars, callVars, gateVars, envVars, bufferVars, n_attempts, raised >>
    \/ TruncateAgain /\ UNCHANGED << scopeVars, callVars, gateVars, envVars, bufferVars, n_attempts, raised >>

SpecTrunc == InitTrunc /\ [][NextTrunc]_vars

\* reports of ApiCalls and delivery attempts while time passes and the
\* registry, the settings and the caches change
InitGate ==
    /\ TruncIdle
    /\ ScopeIdle
    /\ settings \in Settings
    /\ registry \in SUBSET Webhooks

NextGate ==
    \/ \E app \in BOOLEAN : NewApiCall(app)
    \/ \E a \in 1..MaxCalls : AttachResponse(a)
    \/ \E a \in 1..MaxCalls : Report(a)
    \/ \E d \in BOOLEAN : report_event_delivery_attempt(d)
    \/ active_webhooks_exists_clear_cache
    \/ GetObservabilityWebhooks
    \/ Tick
    \/ \E ws \in SUBSET Webhooks : RegistryChange(ws)
    \/ \E st \in Settings : SetSettings(st)

SpecGate == InitGate /\ [][NextGate]_vars


\* a text of k characters c followed by n plain characters
EscThenPlain(c, k, n) == [i \in 1..(k + n) |-> IF i <= k THEN c ELSE 97]

RECURSIVE SeqsUpTo(_, _)
\* the sequences over S of length at most n
SeqsUpTo(S, n) ==
    IF n = 0 THEN {<< >>}
    ELSE LET shorter == SeqsUpTo(S, n - 1)
         IN  shorter \cup {Append(q, x) : q \in {u \in shorter : Len(u) = n - 1}, x \in S}

\* the GraphQLOperationResponse objects generated: without or with a name,
\* a query (of a subscription, or a longer one of a query) and a result
\* (a short one and a long one)
GraphQLOperationResponses ==
    { [name |-> n, query |-> q.document_string, operation |-> q.operation,
       result |-> r.result, result_invalid |-> r.result_invalid] :
        n \in {<< >>, << 97 >>},
        q \in {[document_string |-> << >>, operation |-> "None"],
               [document_string |-> << 97 >>, operation |-> "subscription"],
               [document_string |-> EscThenPlain(10, 1, MaxLen), operation |-> "query"]},
        r \in {[result |-> << >>, result_invalid |-> FALSE],
               [result |-> EscThenPlain(10, 1, MaxLen), result_invalid |-> TRUE],
               [result |-> EscThenPlain(10, MaxEscaped, MaxPlain), result_invalid |-> FALSE]} }

\* the attempts generated: without delivery, with a delivery without payload
\* or webhook, and complete ones with their three texts
EventDeliveryAttempts ==
    { [has_delivery |-> d, has_payload |-> p, has_webhook |-> w,
       response |-> b, subscription_query |-> q, payload |-> e] :
        d \in BOOLEAN, p \in BOOLEAN, w \in BOOLEAN,
        b \in {<< >>, EscThenPlain(10, 1, MaxLen)},
        q \in {<< >>, << 97 >>, EscThenPlain(10, 1, MaxLen)},
        e \in {<< 97 >>, EscThenPlain(10, MaxEscaped, MaxPlain)} }

\* the limits around the size of the fixed portion, and around the least
\* size that has room for a placeholder per operation
BytesLimits(count) ==
    { InitialDumpSize + k * GQL_OPERATION_PLACEHOLDER_SIZE + d :
        k \in {0, count}, d \in (0 - NegLimits)..MaxBudget }

\* generate_api_call_payload(request, response, gql_operations, bytes_limit)
GenerateApiCallPayload ==
    /\ gen.pc = "input"
    /\ gen.generator = "api_call"
    /\ gen' = [gen EXCEPT !.pc = "done",
                          !.out = generate_api_call_payload(
                                      InitialDumpSize, gen.gql_operations, gen.bytes_limit)]
    /\ UNCHANGED << text, limit, res, res2, tpc >>

\* generate_event_delivery_attempt_payload(attempt, next_retry, bytes_limit)
GenerateEventDeliveryAttemptPayload ==
    /\ gen.pc = "input"
    /\ gen.generator = "event_delivery_attempt"
    /\ gen' = [gen EXCEPT !.pc = "done",
                          !.out = generate_event_delivery_attempt_payload(
                                      InitialDumpSize, gen.attempt, gen.bytes_limit)]
    /\ UNCHANGED << text, limit, res, res2, tpc >>

\* one call of a payload generator on every input within the bounds
InitPayload ==
    /\ text = << >>
    /\ limit = 0
    /\ res = JsonTruncText(<< >>, FALSE, 0)
    /\ res2 = JsonTruncText(<< >>, FALSE, 0)
    /\ tpc = "input"
    /\ \/ \E ops \in SeqsUpTo(GraphQLOperationResponses, MaxGqlOperations) :
            \E l \in BytesLimits(Len(ops)) :
                gen = [pc |-> "input", generator |-> "api_call", gql_operations |-> ops,
                       attempt |-> None, bytes_limit |-> l, out |-> None]
       \/ \E at \in EventDeliveryAttempts :
            \E l \in BytesLimits(0) :
                gen = [pc |-> "input", generator |-> "event_delivery_attempt",
                       gql_operations |-> << >>, attempt |-> at, bytes_limit |-> l,
                       out |-> None]
    /\ ScopeIdle
    /\ settings = [OBSERVABILITY_ACTIVE |-> FALSE, OBSERVABILITY_REPORT_ALL_API_CALLS |-> FALSE]
    /\ registry = {}

NextPayload ==
    \/ GenerateApiCallPayload
         /\ UNCHANGED << scopeVars, callVars, gateVars, envVars, bufferVars, n_attempts, raised >>
    \/ GenerateEventDeliveryAttemptPayload
         /\ UNCHANGED << scopeVars, callVars, gateVars, envVars, bufferVars, n_attempts, raised >>

SpecPayload == InitPayload /\ [][NextPayload]_vars


(***************************************************************************)
(* Claims on JsonTruncText.truncate, under SpecTrunc                       *)
(***************************************************************************)
\* C1: for every text and limit, the byte_size of truncate(text, limit) is
\* at most max(limit, 0).
C1_ByteSizeWithinLimit ==
    tpc # "input" => byte_size(res) <= Max(limit, 0)

\* C2: for every text and limit, the text truncate returns is the longest
\* prefix of the input whose JSON-escaped size is at most the limit.
C2_LongestFittingPrefix ==
    tpc # "input" => res.text = LongestFittingPrefix(text, limit)

\* C3: for every text and limit, the byte_size of the value truncate returns
\* is the length of the JSON encoding of the returned text minus the two
\* quotes (also for the second call, made on the first call's text).
C3_ByteSizeIsEncodedLength ==
    /\ tpc # "input" => byte_size(res) = Len(JsonDumps(res.text)) - 2
    /\ tpc = "again" => byte_size(res2) = Len(JsonDumps(res2.text)) - 2

\* a text was cut before an escaped character, after other escaped characters
C3_Witness ==
    /\ tpc = "truncated"
    /\ res.truncated
    /\ res._added_bytes >= 5
    /\ Len(res.text) < Len(PyPrefix(text, limit))

\* C4: the truncated flag is true exactly when the returned text is strictly
\* shorter than the input; truncated = false implies the returned text is
\* the input.
C4_TruncatedIffShorter ==
    tpc # "input" =>
        /\ res.truncated <=> Len(res.text) < Len(text)
        /\ ~res.truncated => res.text = text

\* an escaped character landed exactly on the limit, before the end of the text
C4_Witness ==
    /\ tpc = "truncated"
    /\ res.truncated
    /\ res._added_bytes > 0
    /\ byte_size(res) = limit
    /\ limit > 0

\* C5 as stated: truncating the result again with the same limit yields the
\* same text and the same truncated flag.
C5_Idempotent ==
    tpc = "again" => res2.text = res.text /\ res2.truncated = res.truncated

\* C5 amended: truncating the result again with the same limit yields the
\* same text, and a truncated flag that is false: the same flag as the first
\* call's exactly when the first call did not truncate.
C5_IdempotentText ==
    tpc = "again" =>
        /\ res2.text = res.text
        /\ (res2.truncated = res.truncated) <=> ~res.truncated

\* a truncated text with escaped characters was truncated again
C5_Witness ==
    /\ tpc = "again"
    /\ res.truncated
    /\ res._added_bytes > 0
    /\ ~res2.truncated

\* C6: with limit 0 or a negative limit truncate returns the empty text with
\* byte_size 0, and truncated is true unless the input is empty.
C6_NoBudget ==
    (tpc # "input" /\ limit <= 0) =>
        /\ res.text = << >>
        /\ byte_size(res) = 0
        /\ res.truncated <=> text # << >>

\* a text with an escaped character was truncated with a negative limit
C6_Witness ==
    /\ tpc = "truncated"
    /\ limit < 0
    /\ \E i \in DOMAIN text : ESCAPE_ASCII(text[i])
    /\ res.truncated
    /\ res.text = << >>


(***************************************************************************)
(* Claims on the scopes, under Spec                                        *)
(***************************************************************************)
IsApiCallFrame(fr) == fr.kind = "api_call"

IsGqlOperationFrame(fr) == fr.kind = "gql_operation"

\* the open report_api_call scopes in a stack of frames, outermost first
ApiCallFrames(fs) == SelectSeq(fs, IsApiCallFrame)

\* the open report_gql_operation scopes in a stack of frames, outermost first
GqlOperationFrames(fs) == SelectSeq(fs, IsGqlOperationFrame)

\* C7: in one execution context, a report_api_call scope entered while
\* another is open yields the accumulator of the outermost one; a scope
\* entered while none is open yields a new accumulator; the normal exit of
\* the outermost scope makes the one report() call of the nest, and the
\* exits of the scopes nested in it make none.
C7_NestedApiCallScopes ==
    [][\A f \in Flows :
          LET old == ApiCallFrames(frames[f])
              new == ApiCallFrames(frames'[f])
          IN  /\ Len(new) = Len(old) + 1 =>
                    IF old # << >>
                    THEN /\ new[Len(new)].acc = old[1].acc
                         /\ scope_reports' = scope_reports
                    ELSE /\ new[1].acc \notin DOMAIN api_calls
                         /\ new[1].acc \in DOMAIN api_calls'
              /\ (Len(new) = Len(old) - 1 /\ last_exit' = "return") =>
                    IF new = << >>
                    THEN scope_reports' =
                             [scope_reports EXCEPT ![old[1].acc] = @ + 1]
                    ELSE scope_reports' = scope_reports
      ]_vars

\* C8: inside a report_api_call scope, a report_gql_operation scope entered
\* while another is open yields the accumulator of the outermost one and
\* appends nothing; the normal exit of the outermost one appends its
\* accumulator, once, at the end of the call's gql_operations; the exits of
\* the scopes nested in it append nothing.
C8_GqlOperationsAppended ==
    [][\A f \in Flows :
          LET old  == GqlOperationFrames(frames[f])
              new  == GqlOperationFrames(frames'[f])
              apis == ApiCallFrames(frames'[f])
          IN  /\ (Len(new) = Len(old) + 1 /\ old # << >>) =>
                    /\ new[Len(new)].acc = old[1].acc
                    /\ api_calls' = api_calls
              /\ (Len(new) = Len(old) - 1 /\ last_exit' = "return" /\ apis # << >>) =>
                    IF new = << >>
                    THEN LET a   == apis[1].acc
                             ops == api_calls[a].gql_operations
                         IN  /\ \A i \in DOMAIN ops : ops[i] # old[1].acc
                             /\ api_calls' = [api_calls EXCEPT
                                    ![a].gql_operations = Append(ops, old[1].acc)]
                    ELSE api_calls' = api_calls
      ]_vars

\* C9: an ApiCall is put to the buffer at most once; and when every report()
\* call on it so far was made with instrumentation enabled, an attributable
\* caller or report-all, a response attached and the gate active, one or
\* more calls have made exactly one put_to_buffer invocation.
C9_ReportOnce ==
    \A a \in DOMAIN api_calls :
        /\ obs[a].puts <= 1
        /\ (obs[a].reports >= 1 /\ obs[a].all_ok) => obs[a].puts = 1

\* report() was called on one ApiCall explicitly and by its owning scope exit,
\* each time under the conditions of the claim
C9_Witness ==
    \E a \in DOMAIN api_calls :
        /\ obs[a].reports >= 2
        /\ scope_reports[a] = 1
        /\ obs[a].all_ok
        /\ obs[a].puts = 1

(***************************************************************************)
(* Claims on the gate, under SpecGate                                      *)
(***************************************************************************)
\* C10 as stated: whenever the list get_observability_webhooks returns is
\* empty when an event is reported, no payload is built and nothing is put
\* to the buffer.
C10_GateShortCircuit ==
    [][get_observability_webhooks = {} => UNCHANGED bufferVars]_vars

\* the process-local entry is younger than its timeout and says active
gate_cached_active == gate_fresh /\ _active_webhooks_exists_cache.is_active

\* C10 amended: whenever the list get_observability_webhooks returns is
\* empty when an event is reported, and the process-local gate cache holds no
\* entry within its timeout that says active, no payload is built and
\* nothing is put to the buffer.
C10_GateShortCircuitUnlessCached ==
    [][(get_observability_webhooks = {} /\ ~gate_cached_active)
            => UNCHANGED bufferVars]_vars

\* after an event was put to the buffer, the gate was computed again at a
\* later time from an empty list, by a report that put nothing
C10_Witness ==
    /\ buffer # << >>
    /\ built = Len(buffer)
    /\ _active_webhooks_exists_cache # None
    /\ ~_active_webhooks_exists_cache.is_active
    /\ _active_webhooks_exists_cache.check_time > 0
    /\ get_observability_webhooks = {}

(***************************************************************************)
(* Claims on the failures of collaborators, under SpecGate                 *)
(***************************************************************************)
\* C11: no failure of a collaborator reaches the observed code: whether the
\* payload generator, the buffer, or the shared cache or the webhook query
\* of the gate check fails, ApiCall.report, the exit of report_api_call and
\* report_event_delivery_attempt return normally.
C11_NoFailureReachesCaller ==
    ~raised

(***************************************************************************)
(* Claims on the payload generators, under SpecPayload                     *)
(***************************************************************************)
\* C12: whenever generate_api_call_payload or
\* generate_event_delivery_attempt_payload returns a document, its
\* serialized length is at most bytes_limit.
C12_DocumentWithinLimit ==
    (gen.pc = "done" /\ gen.out.error = "none") => gen.out.size <= gen.bytes_limit

\* C13: both payload generators fail with the size error, and return no
\* document, exactly when the serialized fixed portion is longer than
\* bytes_limit (for an attempt: when its links are all present).
C13_SizeErrorIffFixedTooBig ==
    gen.pc = "done" =>
        IF gen.generator = "api_call"
        THEN gen.out.error = "too_big" <=> InitialDumpSize > gen.bytes_limit
        ELSE gen.out.error = "too_big" <=>
                 (MissingLink(gen.attempt) = "none" /\ InitialDumpSize > gen.bytes_limit)

\* generate_event_delivery_attempt_payload has refused, for a complete attempt,
\* a limit one below the fixed portion
C13_Witness ==
    /\ gen.pc = "done"
    /\ gen.generator = "event_delivery_attempt"
    /\ gen.bytes_limit = InitialDumpSize - 1
    /\ gen.out.error = "too_big"

\* C14: generate_event_delivery_attempt_payload fails with the
\* data-integrity error, whatever the limit, when the attempt has no
\* delivery or the delivery no payload or no webhook; with all links
\* present and a limit below the fixed portion it fails with the size error.
C14_IntegrityErrorFirst ==
    (gen.pc = "done" /\ gen.generator = "event_delivery_attempt") =>
        /\ ~gen.attempt.has_delivery => gen.out.error = "not_assigned"
        /\ (gen.attempt.has_delivery
              /\ (~gen.attempt.has_payload \/ ~gen.attempt.has_webhook))
               => gen.out.error = "no_payload_or_webhook"
        /\ (gen.attempt.has_delivery /\ gen.attempt.has_payload
              /\ gen.attempt.has_webhook /\ gen.bytes_limit < InitialDumpSize)
               => gen.out.error = "too_big"

\* a delivery without webhook was refused for its missing link although the
\* limit was also below the fixed portion
C14_Witness ==
    /\ gen.pc = "done"
    /\ gen.generator = "event_delivery_attempt"
    /\ gen.attempt.has_delivery
    /\ gen.attempt.has_payload
    /\ ~gen.attempt.has_webhook
    /\ gen.bytes_limit < InitialDumpSize
    /\ gen.out.error = "no_payload_or_webhook"

\* C15: when the fixed portion fits but what remains is less than a
\* placeholder per operation, generate_api_call_payload does not fail: it
\* returns the document of the fixed portion, with the count of the
\* operations and an empty operations list.
C15_EmptyOperationsOnBudgetFailure ==
    (/\ gen.pc = "done"
     /\ gen.generator = "api_call"
     /\ gen.bytes_limit >= InitialDumpSize
     /\ gen.bytes_limit - InitialDumpSize
            < Len(gen.gql_operations) * GQL_OPERATION_PLACEHOLDER_SIZE)
        => /\ gen.out.error = "none"
           /\ gen.out.operations = << >>
           /\ gen.out.count = Len(gen.gql_operations)
           /\ gen.out.size = InitialDumpSize - ApiCallCamelCaseSaving

\* two operations, and a limit one byte short of two placeholders
C15_Witness ==
    /\ gen.pc = "done"
    /\ gen.generator = "api_call"
    /\ Len(gen.gql_operations) = 2
    /\ gen.bytes_limit = InitialDumpSize + 2 * GQL_OPERATION_PLACEHOLDER_SIZE - 1
    /\ gen.out.error = "none"
    /\ gen.out.operations = << >>

(***************************************************************************)
(* Claims on ApiCall.report and the webhook gate, under SpecGate           *)
(***************************************************************************)
\* C16: a report() call made while the instrumentation is disabled, or while
\* report-all is disabled and the request has no app, or while no response
\* is attached, consults no gate, builds and puts nothing, and leaves the
\* ApiCall, its reported flag included, as it was; and a call on an
\* unreported ApiCall made when none of the three holds and the gate
\* answers that active webhooks exist invokes the payload generator.
C16_NoOpReport ==
    [][\A a \in DOMAIN api_calls :
          obs'[a].reports = obs[a].reports + 1 =>
              /\ ~Reportable(a) =>
                     /\ UNCHANGED << gateVars, bufferVars >>
                     /\ api_calls'[a] = api_calls[a]
                     /\ ~raised'
              /\ (Reportable(a) /\ ~api_calls[a]._reported
                     /\ active_webhooks_exists /\ ~raised')
                    => built' = built + 1]_vars

\* an ApiCall that a call left unreported at one of the three tests, and
\* that a later call put to the buffer
C16_Witness ==
    \E a \in DOMAIN api_calls :
        /\ obs[a].noop
        /\ obs[a].puts = 1
        /\ buffer # << >>

\* C17: get_observability_webhooks queries the webhooks only when the
\* shared cache has no live entry, and then stores the list it found, also
\* an empty one; while the entry is live the webhooks are queried once, the
\* entry stays as it is, and a gate answer computed meanwhile is computed
\* from the stored list.
C17_QueryOnMissOnly ==
    [][/\ cache' # cache =>
            /\ ~cache_hit
            /\ cache' = [value |-> registry, expires |-> now + CACHE_TIMEOUT,
                         queries |-> 1]
       /\ cache' # None => cache'.queries = 1
       /\ (/\ cache_hit
           /\ _active_webhooks_exists_cache' # _active_webhooks_exists_cache
           /\ _active_webhooks_exists_cache' # None)
            => /\ cache' = cache
               /\ _active_webhooks_exists_cache'.is_active = (cache.value # {})]_vars

\* the empty list is stored and live, webhooks have subscribed since, and
\* the gate answer computed after the entry was stored is still negative
C17_Witness ==
    /\ cache_hit
    /\ cache.value = {}
    /\ registry # {}
    /\ _active_webhooks_exists_cache # None
    /\ _active_webhooks_exists_cache.check_time > cache.expires - CACHE_TIMEOUT
    /\ ~_active_webhooks_exists_cache.is_active

\* a step in which active_webhooks_exists() is called and returns: a
\* delivery attempt reported while the instrumentation is active, or a
\* report() of an unreported ApiCall that passes the three tests
GateConsulted ==
    /\ ~raised'
    /\ \/ n_attempts' # n_attempts /\ settings.OBSERVABILITY_ACTIVE
       \/ \E a \in DOMAIN api_calls :
             /\ obs'[a].reports # obs[a].reports
             /\ Reportable(a)
             /\ ~api_calls[a]._reported

\* C18: active_webhooks_exists returns the answer of the local entry, and
\* calls nothing, exactly when an entry exists and its age is at most the
\* timeout; otherwise it calls get_observability_webhooks, stores whether
\* the list is non-empty with the current time, and returns that. So the
\* answer it gives was computed from the list at most a timeout earlier.
C18_LocalAnswerWithinTimeout ==
    [][/\ GateConsulted =>
            IF /\ _active_webhooks_exists_cache # None
               /\ now - _active_webhooks_exists_cache.check_time <= CACHE_TIMEOUT
            THEN /\ UNCHANGED gateVars
                 /\ built' # built <=> _active_webhooks_exists_cache.is_active
            ELSE /\ _active_webhooks_exists_cache' =
                        [is_active |-> get_observability_webhooks # {}, check_time |-> now]
                 /\ cache' = cache_after_get
                 /\ built' # built <=> get_observability_webhooks # {}
       /\ _active_webhooks_exists_cache' # None =>
            /\ _active_webhooks_exists_cache'.check_time <= now'
            /\ _active_webhooks_exists_cache' # _active_webhooks_exists_cache
                 => _active_webhooks_exists_cache'.check_time = now]_vars

\* a delivery attempt and an ApiCall were reported and built on the answer
\* stored at time 0, whose age has reached the timeout, although no webhook
\* is subscribed any longer and the shared entry has expired
C18_Witness ==
    /\ _active_webhooks_exists_cache # None
    /\ _active_webhooks_exists_cache.is_active
    /\ _active_webhooks_exists_cache.check_time = 0
    /\ now = CACHE_TIMEOUT
    /\ registry = {}
    /\ ~cache_hit
    /\ n_attempts = 1
    /\ built = 2

\* C19: active_webhooks_exists_clear_cache removes the local entry and
\* leaves the shared cache as it is; the next active_webhooks_exists call
\* recomputes its answer from get_observability_webhooks, which answers
\* from the shared entry, without a query of the webhooks, if it is live.
C19_ClearLocalCacheOnly ==
    [][/\ (_active_webhooks_exists_cache # None /\ _active_webhooks_exists_cache' = None)
            => UNCHANGED << cache, truncVars, scopeVars, callVars, envVars, bufferVars,
                            n_attempts, raised >>
       /\ (_active_webhooks_exists_cache = None /\ GateConsulted)
            => /\ _active_webhooks_exists_cache' =
                      [is_active |-> get_observability_webhooks # {}, check_time |-> now]
               /\ cache_hit =>
                      /\ cache' = cache
                      /\ _active_webhooks_exists_cache'.is_active = (cache.value # {})]_vars

\* the local entry a delivery attempt had stored has been removed, while the
\* shared entry is live and holds a list the webhooks no longer match
C19_Witness ==
    /\ _active_webhooks_exists_cache = None
    /\ cache_hit
    /\ cache.value # registry
    /\ api_calls = << >>
    /\ built >= 1

(***************************************************************************)
(* Claims on concurrent flows, under SpecConcurrent                        *)
(***************************************************************************)
\* C20: under every interleaving of the scopes of two flows, the
\* accumulators yielded to the open scopes of a flow were created in that
\* flow, so no accumulator is yielded to two flows; and the step that
\* appends an operation to an accumulator, or that finalizes it, is a step
\* of the flow that created it, the append being of the operation that
\* flow's scope had yielded.
C20_FlowsIsolated ==
    [][/\ \A f \in Flows : \A a \in Held(f)' : obs'[a].flow = f
       /\ \A f, g \in Flows : f # g => Held(f)' \cap Held(g)' = {}
       /\ \A a \in DOMAIN api_calls :
            /\ api_calls'[a].gql_operations # api_calls[a].gql_operations =>
                  /\ frames'[obs[a].flow] # frames[obs[a].flow]
                  /\ api_calls'[a].gql_operations =
                         Append(api_calls[a].gql_operations, Top(obs[a].flow).acc)
            /\ scope_reports'[a] # scope_reports[a] =>
                  frames'[obs[a].flow] # frames[obs[a].flow]]_vars

\* both flows have had their own accumulator finalized, and the operation
\* completed in one of them is in that flow's accumulator only
C20_Witness ==
    \E a, b \in DOMAIN api_calls :
        /\ obs[a].flow = 1
        /\ obs[b].flow = 2
        /\ scope_reports[a] = 1
        /\ scope_reports[b] = 1
        /\ api_calls[a].gql_operations = << >>
        /\ api_calls[b].gql_operations # << >>

(***************************************************************************)
(* Claims on the budget of the operations, under SpecPayload               *)
(***************************************************************************)
\* generate_api_call_payload returned and the pre-check of
\* serialize_gql_operation_results passed
PreCheckPassed ==
    /\ gen.pc = "done"
    /\ gen.generator = "api_call"
    /\ gen.out.error = "none"
    /\ gen.bytes_limit - InitialDumpSize
           >= Len(gen.gql_operations) * GQL_OPERATION_PLACEHOLDER_SIZE

\* C21: when the pre-check passes, the operations are processed left to
\* right from the whole remaining budget: the operation i (0-based, of count)
\* is serialized with the slice floor(remaining / (count - i)), and
\* remaining then goes down by exactly the slice minus the leftover that
\* operation returned.
C21_SlicesCarryLeftover ==
    PreCheckPassed =>
        LET count  == Len(gen.gql_operations)
            slices == gen.out.slices
        IN  /\ Len(slices) > 0 => slices[1].bytes_limit = gen.bytes_limit - InitialDumpSize
            /\ \A i \in 1..Len(slices) :
                  /\ slices[i].payload_limit = slices[i].bytes_limit \div (count - (i - 1))
                  /\ i < Len(slices) =>
                        slices[i + 1].bytes_limit
                            = slices[i].bytes_limit
                                - (slices[i].payload_limit - slices[i].left_bytes)
                  /\ i <= Len(gen.out.operations) =>
                        /\ gen.out.operations[i]
                              = serialize_gql_operation_result(
                                    gen.gql_operations[i], slices[i].payload_limit).payload
                        /\ slices[i].left_bytes
                              = serialize_gql_operation_result(
                                    gen.gql_operations[i], slices[i].payload_limit).left_bytes

\* of two operations the first left a part of its slice unused, and the
\* second got a larger slice than the first
C21_Witness ==
    /\ PreCheckPassed
    /\ Len(gen.gql_operations) = 2
    /\ Len(gen.out.slices) = 2
    /\ gen.out.slices[1].left_bytes > 0
    /\ gen.out.slices[2].payload_limit > gen.out.slices[1].payload_limit
    /\ gen.out.slices[2].payload_limit
          = gen.out.slices[1].bytes_limit - gen.out.slices[1].payload_limit
              + gen.out.slices[1].left_bytes

\* the budget of the iteration i after the placeholder
BudgetOf(i) == gen.out.slices[i].payload_limit - GQL_OPERATION_PLACEHOLDER_SIZE

\* C22: serialize_gql_operation_result fails on a slice below the
\* placeholder cost and on no other; with B the slice minus that cost, the
\* name is truncated to floor(B / 3), the query to floor((B - nameBytes) / 2)
\* and the result to B - nameBytes - queryBytes, an absent field being null
\* and taking nothing; the leftover is max(0, B minus the three byte sizes),
\* and the three byte sizes together are at most B.
C22_FieldBudgets ==
    PreCheckPassed =>
        \A i \in 1..Len(gen.out.operations) :
            LET operation  == gen.gql_operations[i]
                payload    == gen.out.operations[i]
                nameBytes  == SpentBytes(payload.name)
                queryBytes == SpentBytes(payload.query)
                resultBytes == SpentBytes(payload.result)
            IN  /\ serialize_gql_operation_result(
                       operation, GQL_OPERATION_PLACEHOLDER_SIZE - 1).error
                /\ ~serialize_gql_operation_result(
                       operation, GQL_OPERATION_PLACEHOLDER_SIZE).error
                /\ BudgetOf(i) >= 0
                /\ payload.name = IF operation.name = << >> THEN None
                                  ELSE truncate(operation.name, BudgetOf(i) \div 3)
                /\ payload.query = IF operation.query = << >> THEN None
                                   ELSE truncate(operation.query,
                                                 (BudgetOf(i) - nameBytes) \div 2)
                /\ payload.result = IF operation.result = << >> THEN None
                                    ELSE truncate(operation.result,
                                                  BudgetOf(i) - nameBytes - queryBytes)
                /\ gen.out.slices[i].left_bytes
                      = Max(0, BudgetOf(i) - nameBytes - queryBytes - resultBytes)
                /\ nameBytes + queryBytes + resultBytes <= BudgetOf(i)

(***************************************************************************)
(* Claims on the end of the scopes, under Spec                             *)
(***************************************************************************)
\* C23: once the outermost report_api_call scope, or the outermost
\* report_gql_operation scope, of an execution context has ended, by return
\* or by exception, the context storage holds no accumulator of that kind,
\* so that the next scope of that kind creates its own.
C23_ContextClearedAfterScope ==
    \A f \in Flows :
        /\ ApiCallFrames(frames[f]) = << >> => context[Slot(f)].api_call = 0
        /\ GqlOperationFrames(frames[f]) = << >> => context[Slot(f)].gql_operation = 0

(***************************************************************************)
(* Claims on report_event_delivery_attempt, under SpecGate                 *)
(***************************************************************************)
\* C24: while the instrumentation is enabled, report_event_delivery_attempt
\* for an attempt without delivery stops after logging: it does not consult
\* the gate (the caches stay as they were), invokes no payload generator,
\* puts nothing to the buffer and raises nothing.
C24_NoDeliveryStopsAfterLog ==
    [][(settings.OBSERVABILITY_ACTIVE /\ report_event_delivery_attempt(FALSE))
          => (UNCHANGED << gateVars, bufferVars >> /\ ~raised')
      ]_vars

(***************************************************************************)
(* Claims on where JsonTruncText.truncate cuts, under SpecTrunc            *)
(***************************************************************************)
\* C25: for every text and limit, the text truncate returns is a prefix of
\* the input, and no longer prefix of the input has a JSON-escaped size of
\* at most the limit: truncate never cuts earlier than it has to.
C25_NeverCutsEarly ==
    tpc # "input" =>
        /\ Len(res.text) <= Len(text)
        /\ res.text = SubSeq(text, 1, Len(res.text))
        /\ \A k \in (Len(res.text) + 1)..Len(text) :
              Len(JsonEncodeBody(SubSeq(text, 1, k))) > limit

\* a text was cut right after an escaped character that filled the limit
\* exactly, with more of the input behind it
C25_Witness ==
    /\ tpc = "truncated"
    /\ res.truncated
    /\ res.text # << >>
    /\ ESCAPE_ASCII(res.text[Len(res.text)])
    /\ Len(JsonEncodeBody(res.text)) = limit
    /\ Len(res.text) < Len(text)

(***************************************************************************)
(* Claims on the operations list as a whole, under SpecPayload             *)
(***************************************************************************)
\* C26: the operations list of a document is filled all or nothing. When
\* what remains after the fixed portion is at least a placeholder cost per
\* operation, every slice is at least the placeholder cost, the remaining
\* budget never goes below zero, no operation fails for its budget and the
\* list has as many entries as there are operations; otherwise it is empty.
C26_AllOrNothing ==
    (gen.pc = "done" /\ gen.generator = "api_call" /\ gen.out.error = "none") =>
        LET count  == Len(gen.gql_operations)
            slices == gen.out.slices
        IN  IF gen.bytes_limit - InitialDumpSize >= count * GQL_OPERATION_PLACEHOLDER_SIZE
            THEN /\ ~gen.out.budget_error
                 /\ Len(slices) = count
                 /\ \A i \in 1..Len(slices) :
                       /\ slices[i].payload_limit >= GQL_OPERATION_PLACEHOLDER_SIZE
                       /\ slices[i].bytes_limit >= 0
                       /\ slices[i].bytes_limit
                             - (slices[i].payload_limit - slices[i].left_bytes) >= 0
                 /\ Len(gen.out.operations) = count
            ELSE Len(gen.out.operations) = 0

\* two operations were both emitted from a budget of exactly two
\* placeholder costs, the first taking a slice of exactly one
C26_Witness ==
    /\ gen.pc = "done"
    /\ gen.generator = "api_call"
    /\ gen.out.error = "none"
    /\ Len(gen.gql_operations) = 2
    /\ gen.bytes_limit - InitialDumpSize = 2 * GQL_OPERATION_PLACEHOLDER_SIZE
    /\ Len(gen.out.operations) = 2
    /\ gen.out.slices[1].payload_limit = GQL_OPERATION_PLACEHOLDER_SIZE
    /\ gen.out.slices[2].payload_limit = GQL_OPERATION_PLACEHOLDER_SIZE

====
